---- MODULE Spec2Model ----
(***************************************************************************)
(* Model of the proto-lindt language server (lsp-sample/server/src/        *)
(* server.ts).  The file holds two variants of the server:                 *)
(*   "save"   (lines 1-425):   validation on documents.onDidSave, parser   *)
(*            extractLintObjects, enrichment requestGptSuggestions;        *)
(*   "change" (lines 427-809): validation on documents.onDidChangeContent, *)
(*            parser extractLinterOutput, enrichment getSuggestion.        *)
(*                                                                         *)
(* Raw linter text is modelled as a sequence of tokens, one per line (or   *)
(* per block of lines that one of the parser's regular expressions         *)
(* matches as a unit).  A regular expression's lastIndex is the number of  *)
(* tokens that lie before the cursor.                                      *)
(***************************************************************************)
EXTENDS Integers, Sequences, FiniteSets, TLC

\* ------------------------------------------------------------------ bounds
MaxItems == 4       \* length of the generated raw texts, in items
MaxRuns == 2        \* number of validateTextDocument calls in one behaviour
MaxCalls == 3       \* number of parser calls in one behaviour
MaxGets == 3        \* number of getDocumentSettings calls in one behaviour

Docs == {"d1", "d2"}

\* ------------------------------------------------------------- raw text
ZeroRange == <<0, 0, 0, 0>>

\* One token of raw text: k the marker it carries, v the identity of its
\* payload text (0 is the empty string), r the four integers of a location.
Tok(k, v, r) == [k |-> k, v |-> v, r |-> r]

Min(S) == CHOOSE x \in S : \A y \in S : x <= y

\* What the linter (or anything else) can write: a file header, and problem
\* entries of several shapes.  The item at position p carries payload p.
Items == {"File", "Full", "NoLoc", "BadLoc", "RevLoc", "Sugg", "NoRuleId", "Other"}

ItemTokens(it, p) ==
    LET msg == Tok("msg", p, ZeroRange)
        loc == Tok("loc", p, <<p, 0, p, 1>>)
        rid == Tok("rule_id", p, ZeroRange)
        uri == Tok("rule_doc_uri", p, ZeroRange)
    IN CASE it = "File"     -> <<Tok("file", p, ZeroRange)>>
         [] it = "Full"     -> <<msg, loc, rid, uri>>
         [] it = "NoLoc"    -> <<msg, rid, uri>>
         [] it = "BadLoc"   -> <<msg, Tok("badloc", p, ZeroRange), rid, uri>>
         [] it = "RevLoc"   -> <<msg, Tok("loc", p, <<p, 1, p, 0>>), rid, uri>>
         [] it = "Sugg"     -> <<msg, Tok("sugg", p, ZeroRange), loc, rid, uri>>
         [] it = "NoRuleId" -> <<msg, loc, uri>>
         [] OTHER           -> <<Tok("other", p, ZeroRange)>>

RECURSIVE RenderFrom(_, _)
RenderFrom(items, p) ==
    IF p > Len(items) THEN <<>>
    ELSE ItemTokens(items[p], p) \o RenderFrom(items, p + 1)

Render(items) == RenderFrom(items, 1)

ItemSeqs == UNION {[1..n -> Items] : n \in 0..MaxItems}

\* ------------------------------------------------------------ the parser
\* exec of a regular expression written without the g flag: lastIndex is
\* ignored and the search always starts at the beginning of the text.
ExecKindWithoutGlobalFlag(text, lastIndex, k) ==
    LET S == {i \in 1..Len(text) : text[i].k = k}
    IN IF S = {} THEN 0 ELSE Min(S)

\* RegExp.prototype.exec of a global regular expression that matches one
\* token of kind k: the first match at or after lastIndex, 0 for null.
ExecKind(text, lastIndex, k) ==
    LET S == {i \in (lastIndex + 1)..Len(text) : text[i].k = k}
    IN IF S = {} THEN 0 ELSE Min(S)

\* problemRegex = /\n\s*- message: ([\s\S]*?)(?=rule_id:)/g : a message
\* line that has a line break before it (so never the first line of the
\* text), lazily up to the nearest following "rule_id:", which the
\* lookahead leaves unconsumed.
ProblemStarts(text, lastIndex) ==
    {i \in (lastIndex + 1)..Len(text) :
        /\ i >= 2
        /\ text[i].k = "msg"
        /\ \E j \in (i + 1)..Len(text) : text[j].k = "rule_id"}

ProblemEnd(text, i) == Min({j \in (i + 1)..Len(text) : text[j].k = "rule_id"}) - 1

\* fullMessage.replace(locationRegex, '') and .replace(suggestionRegex, '')
StripLocation(frag) == SelectSeq(frag, LAMBDA t : t.k # "loc")
StripSuggestion(frag) == SelectSeq(frag, LAMBDA t : t.k # "sugg")

\* String.prototype.replace with a global regular expression leaves the
\* expression's lastIndex at 0.
LastIndexAfterReplace(lastIndex) == 0

NewProblem(message, range, rule_id, rule_doc_uri, suggestion) ==
    [message |-> message, suggestion |-> suggestion, range |-> range,
     rule_id |-> rule_id, rule_doc_uri |-> rule_doc_uri]

\* The regular expressions' cursors at function entry.
FreshRegex == [problem |-> 0, location |-> 0, ruleId |-> 0, ruleDocUri |-> 0]

\* One iteration of the inner while loop, given the problemRegex match
\* starting at token i: the Problem pushed and the cursors afterwards.
ProblemStep(text, re, i, saveVariant) ==
    LET j == ProblemEnd(text, i)
        fullMessage == SubSeq(text, i, j)
        message == IF saveVariant
                   THEN StripSuggestion(StripLocation(fullMessage))
                   ELSE StripLocation(fullMessage)
        locationMatch == ExecKind(text, LastIndexAfterReplace(re.location), "loc")
        ruleIdMatch == ExecKind(text, re.ruleId, "rule_id")
        ruleDocUriMatch == ExecKind(text, re.ruleDocUri, "rule_doc_uri")
        range == IF locationMatch # 0 THEN text[locationMatch].r ELSE ZeroRange
        rule_id == IF ruleIdMatch # 0 THEN text[ruleIdMatch].v ELSE 0
        rule_doc_uri == IF ruleDocUriMatch # 0 THEN text[ruleDocUriMatch].v ELSE 0
    IN [problem |-> NewProblem(message, range, rule_id, rule_doc_uri,
                               IF saveVariant THEN "TODO" ELSE ""),
        re |-> [problem |-> j, location |-> locationMatch,
                ruleId |-> ruleIdMatch, ruleDocUri |-> ruleDocUriMatch]]

\* The inner while loop: runs until problemRegex.exec returns null, which
\* resets problemRegex.lastIndex to 0.
RECURSIVE ProblemLoop(_, _, _, _)
ProblemLoop(text, re, problems, saveVariant) ==
    LET S == ProblemStarts(text, re.problem)
    IN IF S = {}
       THEN [problems |-> problems, re |-> [re EXCEPT !.problem = 0]]
       ELSE LET st == ProblemStep(text, re, Min(S), saveVariant)
            IN ProblemLoop(text, st.re, Append(problems, st.problem), saveVariant)

\* The outer while loop over fileRegex = /- file_path: (.*)\n\s*problems:/g
RECURSIVE FileLoop(_, _, _, _, _)
FileLoop(text, fileIndex, re, outputData, saveVariant) ==
    LET f == ExecKind(text, fileIndex, "file")
    IN IF f = 0 THEN outputData
       ELSE LET inner == ProblemLoop(text, re, <<>>, saveVariant)
            IN FileLoop(text, f, inner.re,
                        Append(outputData, [file_path |-> text[f].v,
                                            problems |-> inner.problems]),
                        saveVariant)

extractLintObjects(lintingText) == FileLoop(lintingText, 0, FreshRegex, <<>>, TRUE)

extractLinterOutput(output) == FileLoop(output, 0, FreshRegex, <<>>, FALSE)

\* ------------------------------------------------------------- variables
VARIABLES
    lintingText, outputData, parser,            \* a parser call on its own
    scan,                                       \* a parser call, step by step
    variant,                                    \* "save" or "change"
    hasConfigurationCapability,
    hasDiagnosticRelatedInformationCapability,
    documents,                                  \* the open documents
    documentSettings,                           \* the settings cache
    globalSettings,
    runs,                                       \* validateTextDocument calls
    published,                                  \* diagnostic set per document
    hostRequests,                               \* getConfiguration requests sent
    settingsCalls,                              \* getDocumentSettings calls, results
    invalidated                                 \* per key: the logs' lengths at
                                                \* its last clear() / delete()

pvars == <<lintingText, outputData, parser, scan>>

cvars == <<hostRequests, settingsCalls, invalidated>>

svars == <<variant, hasConfigurationCapability,
           hasDiagnosticRelatedInformationCapability,
           documents, documentSettings, globalSettings, runs, published>>

vars == <<lintingText, outputData, parser, scan, variant, hasConfigurationCapability,
          hasDiagnosticRelatedInformationCapability,
          documents, documentSettings, globalSettings, runs, published,
          hostRequests, settingsCalls, invalidated>>

\* --------------------------------------------- the parser, step by step
\* The regular expressions a call of the parser starts with: they are
\* literals inside the function body, so each call creates them anew,
\* whatever the cursors of the previous call's objects were.
RegexKeptFromLastCall(previous) == previous

RegexAtEntry(previous) == FreshRegex

\* No call of the parser yet.
NoScan ==
    [pc |-> "idle", fn |-> "none", calls |-> 0, fileIndex |-> 0, re |-> FreshRegex,
     filePath |-> 0, problems |-> <<>>,
     first |-> [fn |-> "none", text |-> <<>>, result |-> <<>>]]

\* Entry of call number n of parser fn, after the declarations and before
\* the first test of the outer while loop.
EnterParser(old, fn, n) ==
    [old EXCEPT !.pc = "file", !.fn = fn, !.calls = n, !.fileIndex = 0,
                !.re = RegexAtEntry(old.re), !.filePath = 0, !.problems = <<>>]

\* The raw texts of the repeated calls.
CallTexts ==
    {Render(<<>>),
     Render(<<"File", "Full", "Full">>),
     Render(<<"File", "Full", "File", "Full">>),
     Render(<<"File", "NoRuleId", "NoLoc">>)}

ParserNames == {"extractLintObjects", "extractLinterOutput"}

\* ----------------------------------------------------- server: settings
defaultSettings == [maxNumberOfProblems |-> 1000]

\* change.settings.languageServerExample of a configuration-change event:
\* "absent", or a settings object.
ChangeSettings ==
    {[present |-> FALSE, maxNumberOfProblems |-> 0]}
        \cup {[present |-> TRUE, maxNumberOfProblems |-> 0]}

\* ------------------------------------------------ server: linter output
\* What the linter writes to standard output when it exits with 0.
LinterTexts ==
    {Render(<<>>),
     Render(<<"File">>),
     Render(<<"File", "File", "Full">>)}

\* 'error running api-linter:' + error, the string requestLinting and
\* applyLinter return when exec rejects: one line without any marker.
LinterErrorText == <<Tok("other", 0, ZeroRange)>>

\* What getSuggestion resolves to: the completion text, or "" + error.
SuggestionReplies == {"fix", "Error"}

\* ------------------------------------------- server: toString (save only)
RECURSIVE ProblemsToString(_, _)
ProblemsToString(problems, i) ==
    IF i > Len(problems) THEN <<>>
    ELSE LET p == problems[i]
         IN p.message
            \o (IF p.suggestion # "" THEN <<Tok("sugg", 0, ZeroRange)>> ELSE <<>>)
            \o <<Tok("loc", 0, p.range),
                 Tok("rule_id", p.rule_id, ZeroRange),
                 Tok("rule_doc_uri", p.rule_doc_uri, ZeroRange)>>
            \o ProblemsToString(problems, i + 1)

LinterObjectToString(lintObject) ==
    <<Tok("file", lintObject.file_path, ZeroRange)>>
        \o ProblemsToString(lintObject.problems, 1)

\* requestGptSuggestions: lintObjects[0].toString() is evaluated outside the
\* try block, so an empty lintObjects throws; otherwise the string of the
\* first LinterObject is parsed again.
GptThrows(lintObjects) == lintObjects = <<>>

requestGptSuggestions(lintObjects) ==
    extractLintObjects(LinterObjectToString(lintObjects[1]))

\* ------------------------------------------------- server: diagnostics
RECURSIVE AllProblems(_, _)
AllProblems(objects, i) ==
    IF i > Len(objects) THEN <<>>
    ELSE objects[i].problems \o AllProblems(objects, i + 1)

RelatedEntry(uri, range, message) ==
    [uri |-> uri, range |-> range, message |-> message]

\* The save variant's loop body without the capability test.
DiagnosticSaveAlwaysRelated(problem, uri, relatedInfo) ==
    [severity |-> "Warning", range |-> problem.range, message |-> problem.message,
     relatedInformation |->
        <<RelatedEntry(uri, problem.range, <<problem.suggestion>>),
          RelatedEntry(uri, problem.range, <<problem.rule_doc_uri>>)>>]

\* The diagnostic built by the save variant's loop body.
DiagnosticSave(problem, uri, relatedInfo) ==
    [severity |-> "Warning", range |-> problem.range, message |-> problem.message,
     relatedInformation |->
        IF relatedInfo
        THEN <<RelatedEntry(uri, problem.range, <<problem.suggestion>>),
               RelatedEntry(uri, problem.range, <<problem.rule_doc_uri>>)>>
        ELSE <<>>]

\* The diagnostic built by the change variant's loop body; suggestion is
\* what getSuggestion returned (used only with related information).
DiagnosticChange(problem, uri, relatedInfo, suggestion) ==
    [severity |-> "Warning", range |-> problem.range, message |-> problem.message,
     relatedInformation |->
        IF relatedInfo
        THEN <<RelatedEntry(uri, problem.range, <<suggestion>>),
               RelatedEntry(uri, problem.range,
                            <<problem.rule_id, " : ", problem.rule_doc_uri>>)>>
        ELSE <<>>]

RECURSIVE DiagnosticsSave(_, _, _, _)
DiagnosticsSave(problems, i, uri, relatedInfo) ==
    IF i > Len(problems) THEN <<>>
    ELSE <<DiagnosticSave(problems[i], uri, relatedInfo)>>
            \o DiagnosticsSave(problems, i + 1, uri, relatedInfo)

RECURSIVE DiagnosticsChange(_, _, _)
DiagnosticsChange(problems, i, uri) ==
    IF i > Len(problems) THEN <<>>
    ELSE <<DiagnosticChange(problems[i], uri, FALSE, "")>>
            \o DiagnosticsChange(problems, i + 1, uri)

\* ------------------------------------------------------- server: runs
InFlight(run) == run.pc \in {"Linting", "Enriching"}

\* A call of validateTextDocument(d): it runs synchronously into
\* requestLinting / applyLinter and suspends at `await exec(...)`.
\* superseded and cap are observations, not program state: whether a newer
\* trigger of the same document arrived while the run was in flight, and
\* the max_problems setting in force when the run started.
NewRun(d, settings) ==
    [doc |-> d, pc |-> "Linting", linter |-> "pending", superseded |-> FALSE,
     cap |-> settings.maxNumberOfProblems, text |-> <<>>,
     problems |-> <<>>, diagnostics |-> <<>>, replies |-> <<>>,
     requests |-> 0, publishes |-> 0]

StartRun(rs, d, settings) ==
    Append([i \in 1..Len(rs) |->
                IF rs[i].doc = d /\ InFlight(rs[i])
                THEN [rs[i] EXCEPT !.superseded = TRUE] ELSE rs[i]],
           NewRun(d, settings))

RECURSIVE StartRuns(_, _, _)
StartRuns(rs, ds, settings) ==
    IF ds = {} THEN rs
    ELSE LET d == CHOOSE x \in ds : TRUE
         IN StartRuns(StartRun(rs, d, settings), ds \ {d}, settings)

\* sendDiagnostics with a URI shared by all runs in place of
\* textDocument.uri.
SendDiagnosticsSharedUri(pub, r, uri, diags) ==
    [pub EXCEPT !["d1"] = [run |-> r, diagnostics |-> diags]]

\* connection.sendDiagnostics({uri, diagnostics}) by run r
SendDiagnostics(pub, r, uri, diags) ==
    [pub EXCEPT ![uri] = [run |-> r, diagnostics |-> diags]]

\* ------------------------------------------------ server: the settings
\* documentSettings = new Map(), and documentSettings.clear().
NoSettings == [k \in {} |-> 0]

\* onDidChangeConfiguration without its documentSettings.clear().
CacheClearSkipped(cache) == cache

\* documentSettings.clear().
CacheClear(cache) == NoSettings

\* onDidClose calling clear() in place of delete(key).
CacheDeleteAll(cache, key) == NoSettings

\* documentSettings.delete(key).
CacheDelete(cache, key) == [k \in DOMAIN cache \ {key} |-> cache[k]]

\* getDocumentSettings without its documentSettings.set(resource, result).
CacheSetDropped(cache, key, result) == cache

\* documentSettings.set(key, result).
CacheSet(cache, key, result) ==
    [k \in DOMAIN cache \cup {key} |-> IF k = key THEN result ELSE cache[k]]

\* onDidChangeConfiguration without `|| defaultSettings`: an event with no
\* settings of this server leaves no usable value (0 stands for undefined).
NewGlobalSettingsUndefined(settings) ==
    [maxNumberOfProblems |-> settings.maxNumberOfProblems]

\* change.settings.languageServerExample || defaultSettings
NewGlobalSettings(settings) ==
    IF settings.present
    THEN [maxNumberOfProblems |-> settings.maxNumberOfProblems]
    ELSE defaultSettings

\* How many getDocumentSettings calls and how many getConfiguration
\* requests there have been.
LogLengths(calls, requests) == [calls |-> Len(calls), requests |-> Len(requests)]

\* ------------------------------------------------- server: the handlers
Init ==
    /\ lintingText = <<>>
    /\ outputData = <<>>
    /\ parser = "none"
    /\ scan = NoScan
    /\ variant \in {"save", "change"}
    /\ hasConfigurationCapability \in BOOLEAN
    /\ hasDiagnosticRelatedInformationCapability \in BOOLEAN
    /\ documents = {}
    /\ documentSettings = NoSettings
    /\ hostRequests = <<>>
    /\ settingsCalls = <<>>
    /\ invalidated = [k \in Docs |-> LogLengths(<<>>, <<>>)]
    /\ globalSettings = defaultSettings
    /\ runs = <<>>
    /\ published = [d \in Docs |-> [run |-> 0, diagnostics |-> <<>>]]

\* A document is opened; the change variant's onDidChangeContent fires on
\* open as well.
DidOpen(d) ==
    /\ d \notin documents
    /\ documents' = documents \cup {d}
    /\ IF variant = "change"
       THEN /\ Len(runs) < MaxRuns
            /\ runs' = StartRun(runs, d, globalSettings)
       ELSE UNCHANGED runs
    /\ UNCHANGED <<pvars, cvars, variant, hasConfigurationCapability,
                   hasDiagnosticRelatedInformationCapability,
                   documentSettings, globalSettings, published>>

DidClose(d) ==
    /\ d \in documents
    /\ documents' = documents \ {d}
    /\ documentSettings' = CacheDelete(documentSettings, d)
    /\ invalidated' = [invalidated EXCEPT
                            ![d] = LogLengths(settingsCalls, hostRequests)]
    /\ UNCHANGED <<pvars, hostRequests, settingsCalls,
                   variant, hasConfigurationCapability,
                   hasDiagnosticRelatedInformationCapability,
                   globalSettings, runs, published>>

DidSave(d) ==
    /\ variant = "save"
    /\ d \in documents
    /\ Len(runs) < MaxRuns
    /\ runs' = StartRun(runs, d, globalSettings)
    /\ UNCHANGED <<pvars, cvars, variant, hasConfigurationCapability,
                   hasDiagnosticRelatedInformationCapability,
                   documents, documentSettings, globalSettings, published>>

DidChangeContent(d) ==
    /\ variant = "change"
    /\ d \in documents
    /\ Len(runs) < MaxRuns
    /\ runs' = StartRun(runs, d, globalSettings)
    /\ UNCHANGED <<pvars, cvars, variant, hasConfigurationCapability,
                   hasDiagnosticRelatedInformationCapability,
                   documents, documentSettings, globalSettings, published>>

DidChangeConfiguration(settings) ==
    /\ Len(runs) + Cardinality(documents) <= MaxRuns
    /\ IF hasConfigurationCapability
       THEN /\ documentSettings' = CacheClear(documentSettings)
            /\ invalidated' =
                  [k \in Docs |-> LogLengths(settingsCalls, hostRequests)]
            /\ UNCHANGED globalSettings
       ELSE /\ globalSettings' = NewGlobalSettings(settings)
            /\ UNCHANGED <<documentSettings, invalidated>>
    /\ runs' = StartRuns(runs, documents, globalSettings')
    /\ UNCHANGED <<pvars, hostRequests, settingsCalls,
                   variant, hasConfigurationCapability,
                   hasDiagnosticRelatedInformationCapability,
                   documents, published>>

\* getDocumentSettings(resource).  An entry of the cache is the Thenable
\* that connection.workspace.getConfiguration returned, named by the
\* position of its request in hostRequests.
GetDocumentSettings(resource) ==
    /\ Len(settingsCalls) < MaxGets
    /\ IF ~hasConfigurationCapability
       THEN /\ settingsCalls' = Append(settingsCalls,
                    [resource |-> resource, result |-> globalSettings])
            /\ UNCHANGED <<documentSettings, hostRequests>>
       ELSE IF resource \in DOMAIN documentSettings
       THEN /\ settingsCalls' = Append(settingsCalls,
                    [resource |-> resource, result |-> documentSettings[resource]])
            /\ UNCHANGED <<documentSettings, hostRequests>>
       ELSE /\ hostRequests' = Append(hostRequests, resource)
            /\ documentSettings' =
                  CacheSet(documentSettings, resource, Len(hostRequests'))
            /\ settingsCalls' = Append(settingsCalls,
                    [resource |-> resource, result |-> Len(hostRequests')])
    /\ UNCHANGED <<pvars, invalidated, variant, hasConfigurationCapability,
                   hasDiagnosticRelatedInformationCapability,
                   documents, globalSettings, runs, published>>

\* sendDiagnostics moved into the loop body: it runs after every problem.
LoopExitedEveryIteration(done, total) == TRUE

\* The loop of validateTextDocument has run through all problems, and the
\* statement after it, sendDiagnostics, is reached.
LoopExited(done, total) == done = total

\* The linter process of run r ends: exec resolves with stdout = text
\* (ok) or rejects (~ok), and validateTextDocument resumes.
LinterExitSave(r, ok, text) ==
    LET run == runs[r]
        lintingTextR == IF ok THEN text ELSE LinterErrorText
        lintObjects == extractLintObjects(lintingTextR)
        started == [run EXCEPT !.linter = IF ok THEN "ok" ELSE "failed",
                               !.text = lintingTextR]
    IN /\ variant = "save"
       /\ run.pc = "Linting"
       /\ IF GptThrows(lintObjects)
          THEN /\ runs' = [runs EXCEPT ![r] = [started EXCEPT !.pc = "Threw"]]
               /\ UNCHANGED published
          ELSE LET problems == AllProblems(requestGptSuggestions(lintObjects), 1)
                   diags == DiagnosticsSave(problems, 1, run.doc,
                                hasDiagnosticRelatedInformationCapability)
               IN /\ runs' = [runs EXCEPT ![r] =
                                [started EXCEPT !.pc = "Done",
                                                !.problems = problems,
                                                !.diagnostics = diags,
                                                !.publishes = @ + 1]]
                  /\ published' = SendDiagnostics(published, r, run.doc, diags)
       /\ UNCHANGED <<pvars, cvars, variant, hasConfigurationCapability,
                      hasDiagnosticRelatedInformationCapability,
                      documents, documentSettings, globalSettings>>

\* The loop of validateTextDocument starting every getSuggestion before
\* awaiting any (Promise.all over the findings).
RequestsAllAtOnce(problems) == Len(problems)

\* The suggestion requests sent when validateTextDocument suspends for the
\* first time in its loop: that of the first finding, at
\* `await getSuggestion(problem, textDocument)`.
RequestsAtLoopEntry(problems) == IF problems = <<>> THEN 0 ELSE 1

LinterExitChange(r, ok, text) ==
    LET run == runs[r]
        linting == IF ok THEN text ELSE LinterErrorText
        problems == AllProblems(extractLinterOutput(linting), 1)
        started == [run EXCEPT !.linter = IF ok THEN "ok" ELSE "failed",
                               !.text = linting]
    IN /\ variant = "change"
       /\ run.pc = "Linting"
       /\ IF linting = <<>>
          THEN \* if (!linting) return;
               /\ runs' = [runs EXCEPT ![r] = [started EXCEPT !.pc = "Done"]]
               /\ UNCHANGED published
          ELSE IF hasDiagnosticRelatedInformationCapability /\ problems # <<>>
          THEN \* suspended at the first `await getSuggestion(...)`
               /\ runs' = [runs EXCEPT ![r] =
                                [started EXCEPT !.pc = "Enriching",
                                                !.problems = problems,
                                                !.requests =
                                                    RequestsAtLoopEntry(problems)]]
               /\ UNCHANGED published
          ELSE LET diags == DiagnosticsChange(problems, 1, run.doc)
               IN /\ runs' = [runs EXCEPT ![r] =
                                [started EXCEPT !.pc = "Done",
                                                !.problems = problems,
                                                !.diagnostics = diags,
                                                !.publishes = @ + 1]]
                  /\ published' = SendDiagnostics(published, r, run.doc, diags)
       /\ UNCHANGED <<pvars, cvars, variant, hasConfigurationCapability,
                      hasDiagnosticRelatedInformationCapability,
                      documents, documentSettings, globalSettings>>

\* getSuggestion without its try/catch: a failed request rejects the await
\* and validateTextDocument ends there.
AfterSuggestionUncaught(suggestion, last) ==
    IF suggestion = "Error" THEN "Threw"
    ELSE IF last THEN "Done" ELSE "Enriching"

\* Where validateTextDocument stands after getSuggestion has resolved:
\* getSuggestion catches a failure and resolves with its text, so the loop
\* goes on either way.
AfterSuggestion(suggestion, last) == IF last THEN "Done" ELSE "Enriching"

\* getSuggestion of run r resolves (with the completion text, or with the
\* text of the caught error): the loop body finishes and the loop goes on
\* to the next `await getSuggestion`, or ends and the run publishes.
SuggestionReply(r, suggestion) ==
    LET run == runs[r]
        problem == run.problems[Len(run.diagnostics) + 1]
        diags == Append(run.diagnostics,
                        DiagnosticChange(problem, run.doc, TRUE, suggestion))
        last == Len(diags) = Len(run.problems)
        send == LoopExited(Len(diags), Len(run.problems))
    IN /\ run.pc = "Enriching"
       /\ runs' = [runs EXCEPT ![r] =
                     [run EXCEPT !.diagnostics = diags,
                                 !.replies = Append(@, suggestion),
                                 !.pc = AfterSuggestion(suggestion, last),
                                 !.requests = IF last THEN @ ELSE @ + 1,
                                 !.publishes = IF send THEN @ + 1 ELSE @]]
       /\ published' = IF send
                       THEN SendDiagnostics(published, r, run.doc, diags)
                       ELSE published
       /\ UNCHANGED <<pvars, cvars, variant, hasConfigurationCapability,
                      hasDiagnosticRelatedInformationCapability,
                      documents, documentSettings, globalSettings>>

Next ==
    \/ \E d \in Docs : DidOpen(d)
    \/ \E d \in Docs : DidClose(d)
    \/ \E d \in Docs : DidSave(d)
    \/ \E d \in Docs : DidChangeContent(d)
    \/ \E settings \in ChangeSettings : DidChangeConfiguration(settings)
    \/ \E r \in 1..Len(runs), ok \in BOOLEAN, text \in LinterTexts :
            LinterExitSave(r, ok, text)
    \/ \E r \in 1..Len(runs), ok \in BOOLEAN, text \in LinterTexts :
            LinterExitChange(r, ok, text)
    \/ \E r \in 1..Len(runs), suggestion \in SuggestionReplies :
            SuggestionReply(r, suggestion)

Spec == Init /\ [][Next]_vars

\* The settings cache on its own: getDocumentSettings is called by no
\* handler, so it is exercised here next to the handlers that write the
\* cache.
NextSettings ==
    \/ \E d \in Docs : DidOpen(d)
    \/ \E d \in Docs : DidClose(d)
    \/ \E settings \in ChangeSettings : DidChangeConfiguration(settings)
    \/ \E resource \in Docs : GetDocumentSettings(resource)

SpecSettings == Init /\ [][NextSettings]_vars

\* ------------------------------------------------- the parser on its own
InitParse ==
    /\ \E items \in ItemSeqs : lintingText = Render(items)
    /\ outputData = <<>>
    /\ parser = "none"
    /\ scan = NoScan
    /\ variant = "save"
    /\ hasConfigurationCapability = FALSE
    /\ hasDiagnosticRelatedInformationCapability = FALSE
    /\ documents = {}
    /\ documentSettings = NoSettings
    /\ hostRequests = <<>>
    /\ settingsCalls = <<>>
    /\ invalidated = [k \in Docs |-> LogLengths(<<>>, <<>>)]
    /\ globalSettings = defaultSettings
    /\ runs = <<>>
    /\ published = [d \in Docs |-> [run |-> 0, diagnostics |-> <<>>]]

CallExtractLintObjects ==
    /\ parser = "none"
    /\ outputData' = extractLintObjects(lintingText)
    /\ parser' = "extractLintObjects"
    /\ UNCHANGED <<lintingText, scan, svars, cvars>>

CallExtractLinterOutput ==
    /\ parser = "none"
    /\ outputData' = extractLinterOutput(lintingText)
    /\ parser' = "extractLinterOutput"
    /\ UNCHANGED <<lintingText, scan, svars, cvars>>

NextParse == CallExtractLintObjects \/ CallExtractLinterOutput

SpecParse == InitParse /\ [][NextParse]_vars

\* --------------------------------------- the parser's loops, step by step
InitScan ==
    /\ \E items \in ItemSeqs : lintingText = Render(items)
    /\ outputData = <<>>
    /\ parser = "none"
    /\ \E fn \in ParserNames : scan = EnterParser(NoScan, fn, 1)
    /\ variant = "save"
    /\ hasConfigurationCapability = FALSE
    /\ hasDiagnosticRelatedInformationCapability = FALSE
    /\ documents = {}
    /\ documentSettings = NoSettings
    /\ hostRequests = <<>>
    /\ settingsCalls = <<>>
    /\ invalidated = [k \in Docs |-> LogLengths(<<>>, <<>>)]
    /\ globalSettings = defaultSettings
    /\ runs = <<>>
    /\ published = [d \in Docs |-> [run |-> 0, diagnostics |-> <<>>]]

InitCalls ==
    /\ lintingText \in CallTexts
    /\ outputData = <<>>
    /\ parser = "none"
    /\ \E fn \in ParserNames : scan = EnterParser(NoScan, fn, 1)
    /\ variant = "save"
    /\ hasConfigurationCapability = FALSE
    /\ hasDiagnosticRelatedInformationCapability = FALSE
    /\ documents = {}
    /\ documentSettings = NoSettings
    /\ hostRequests = <<>>
    /\ settingsCalls = <<>>
    /\ invalidated = [k \in Docs |-> LogLengths(<<>>, <<>>)]
    /\ globalSettings = defaultSettings
    /\ runs = <<>>
    /\ published = [d \in Docs |-> [run |-> 0, diagnostics |-> <<>>]]

\* The test of the outer loop, `while ((match = fileRegex.exec(text)) && true)`:
\* a match enters the loop body up to the test of the inner loop; null
\* leaves the loop and the function returns outputData.
ScanFile ==
    LET f == ExecKind(lintingText, scan.fileIndex, "file")
    IN /\ scan.pc = "file"
       /\ IF f = 0
          THEN scan' = [scan EXCEPT
                          !.pc = "returned", !.fileIndex = 0,
                          !.first = IF scan.calls = 1
                                    THEN [fn |-> scan.fn, text |-> lintingText,
                                          result |-> outputData]
                                    ELSE @]
          ELSE scan' = [scan EXCEPT !.pc = "problem", !.fileIndex = f,
                                    !.filePath = lintingText[f].v,
                                    !.problems = <<>>]
       /\ UNCHANGED <<lintingText, outputData, parser, svars, cvars>>

\* The test of the inner loop, `while ((match = problemRegex.exec(text)) && true)`:
\* a match runs the loop body, which pushes one Problem; null leaves the
\* loop, and the rest of the outer body pushes the LinterObject.
ScanProblem ==
    LET S == ProblemStarts(lintingText, scan.re.problem)
    IN /\ scan.pc = "problem"
       /\ IF S = {}
          THEN /\ scan' = [scan EXCEPT !.pc = "file", !.re.problem = 0]
               /\ outputData' = Append(outputData,
                                       [file_path |-> scan.filePath,
                                        problems |-> scan.problems])
          ELSE LET st == ProblemStep(lintingText, scan.re, Min(S),
                                     scan.fn = "extractLintObjects")
               IN /\ scan' = [scan EXCEPT !.re = st.re,
                                          !.problems = Append(@, st.problem)]
                  /\ UNCHANGED outputData
       /\ UNCHANGED <<lintingText, parser, svars, cvars>>

\* The parser is called once more, after the previous call has returned.
CallAgain(text, fn) ==
    /\ scan.pc = "returned"
    /\ scan.calls < MaxCalls
    /\ lintingText' = text
    /\ outputData' = <<>>
    /\ scan' = EnterParser(scan, fn, scan.calls + 1)
    /\ UNCHANGED <<parser, svars, cvars>>

NextScan == ScanFile \/ ScanProblem

SpecScan == InitScan /\ [][NextScan]_vars /\ WF_vars(NextScan)

NextCalls ==
    \/ ScanFile
    \/ ScanProblem
    \/ \E text \in CallTexts, fn \in ParserNames : CallAgain(text, fn)

SpecCalls == InitCalls /\ [][NextCalls]_vars

\* ================================================================ claims
RunIds == 1..Len(runs)

RunsOf(d) == {r \in RunIds : runs[r].doc = d}

Finished(r) == ~InFlight(runs[r])

\* The parser the running variant applies to the linter's text.
Parse(text) ==
    IF variant = "save" THEN extractLintObjects(text) ELSE extractLinterOutput(text)

\* C1: a validation run that was superseded (a newer trigger of the same
\* document arrived while it was in flight) never publishes.
C1_SupersededNeverPublishes ==
    \A r \in RunIds : runs[r].superseded => runs[r].publishes = 0

\* C2: for every document at most one validation run is in a phase with
\* an outstanding linter process or suggestion request.
C2_OneRunInFlightPerDocument ==
    \A d \in Docs : Cardinality({r \in RunsOf(d) : InFlight(runs[r])}) <= 1

\* C3: last-trigger-wins.  When no run of a document is in flight, the
\* diagnostic set displayed for it is the one of the most recently
\* triggered successful run.  Stated for the documents all of whose runs
\* had a successful linter invocation and published, so that the only way
\* to fail is the order in which the runs finished.
C3_LastTriggerWins ==
    \A d \in Docs :
        (/\ RunsOf(d) # {}
         /\ \A r \in RunsOf(d) : /\ Finished(r)
                                 /\ runs[r].linter = "ok"
                                 /\ runs[r].publishes = 1)
        => published[d].run = CHOOSE r \in RunsOf(d) : \A q \in RunsOf(d) : q <= r

\* C4: a pass whose linter invocation failed performs no publish (so the
\* previously published set stays as it was).
C4_FailedLinterNoPublish ==
    \A r \in RunIds : runs[r].linter = "failed" => runs[r].publishes = 0

\* C5: every pass whose linter invocation succeeded and which was not
\* superseded publishes, also when the output holds no file report or no
\* finding.  Stated on finished passes.
C5_SuccessfulPassPublishes ==
    \A r \in RunIds :
        (Finished(r) /\ runs[r].linter = "ok" /\ ~runs[r].superseded)
        => runs[r].publishes >= 1

\* C6: with max_problems = N, a pass sends at most N suggestion requests.
\* Stated where the setting is the server's own globalSettings.
C6_CapRespected ==
    ~hasConfigurationCapability
    => \A r \in RunIds : runs[r].requests <= runs[r].cap

\* C7: the diagnostics a pass publishes hold exactly one record for every
\* Finding of every FileReport the parser returns for the pass's linter
\* output, in parser order.
C7_NoFindingDropped ==
    \A r \in RunIds :
        runs[r].publishes >= 1
        => LET findings == AllProblems(Parse(runs[r].text), 1)
               diags == runs[r].diagnostics
           IN /\ Len(diags) = Len(findings)
              /\ \A i \in 1..Len(diags) :
                    /\ diags[i].message = findings[i].message
                    /\ diags[i].range = findings[i].range

\* C8: a pass publishes at most once, only after its linter invocation,
\* its parse and all of its suggestion requests are over, and what it
\* publishes is its complete diagnostic set, replacing the document's set.
C8_PublishedRun(r) ==
    /\ runs[r].publishes = 1
    /\ runs[r].pc = "Done"
    /\ runs[r].linter # "pending"
    /\ Len(runs[r].diagnostics) = Len(runs[r].problems)
    /\ (variant = "change" /\ hasDiagnosticRelatedInformationCapability)
        => runs[r].requests = Len(runs[r].problems)

C8_PublishStep ==
    /\ \A r \in RunIds :
          runs'[r].publishes # runs[r].publishes
          => /\ runs[r].publishes = 0
             /\ runs'[r].publishes = 1
             /\ published'[runs[r].doc] =
                    [run |-> r, diagnostics |-> runs'[r].diagnostics]
    /\ \A d \in Docs :
          published'[d] # published[d]
          => \E r \in RunsOf(d) : runs'[r].publishes # runs[r].publishes

C8_PublishOnceComplete ==
    /\ [](\A r \in RunIds : runs[r].publishes # 0 => C8_PublishedRun(r))
    /\ [][C8_PublishStep]_vars

C8_Witness ==
    \E r \in RunIds :
        /\ runs[r].publishes = 1
        /\ runs[r].requests >= 2
        /\ Len(runs[r].diagnostics) >= 2
        /\ published[runs[r].doc].run = r

\* ----------------------------------------------- claims about the parser
\* The raw text follows the report grammar: it starts with a file header
\* and every problem entry is message, optional suggestion, location,
\* rule_id, rule_doc_uri.
GrammarFollows(a, b) ==
    CASE a = "file"         -> b \in {"msg", "file", "end"}
      [] a = "msg"          -> b \in {"sugg", "loc"}
      [] a = "sugg"         -> b = "loc"
      [] a = "loc"          -> b = "rule_id"
      [] a = "rule_id"      -> b = "rule_doc_uri"
      [] a = "rule_doc_uri" -> b \in {"msg", "file", "end"}
      [] OTHER              -> FALSE

KindAt(text, i) == IF i > Len(text) THEN "end" ELSE text[i].k

GrammarOK(text) ==
    /\ text # <<>>
    /\ text[1].k = "file"
    /\ \A i \in 1..Len(text) : GrammarFollows(text[i].k, KindAt(text, i + 1))

\* The file sections of a raw text and the problem entries inside them.
FileHeaders(text) == {i \in 1..Len(text) : text[i].k = "file"}

Nth(S, n) == CHOOSE i \in S : Cardinality({j \in S : j <= i}) = n

SectionEnd(text, f) ==
    Min({i \in (f + 1)..(Len(text) + 1) : KindAt(text, i) \in {"file", "end"}})

MessageBlocks(text, f) ==
    {i \in (f + 1)..(SectionEnd(text, f) - 1) : text[i].k = "msg"}

EntryEnd(text, m) ==
    Min({i \in (m + 1)..(Len(text) + 1) : KindAt(text, i) \in {"msg", "file", "end"}})

OwnLocations(text, m) ==
    {i \in (m + 1)..(EntryEnd(text, m) - 1) : text[i].k = "loc"}

Parsed == parser # "none"

\* C9: count preservation.  For a raw text with one or more file sections
\* there is one FileReport per section, and the number of its Findings is
\* the number of `- message:` blocks inside that section.
C9_CountPreservation ==
    (Parsed /\ GrammarOK(lintingText))
    => /\ Len(outputData) = Cardinality(FileHeaders(lintingText))
       /\ \A k \in 1..Len(outputData) :
             Len(outputData[k].problems) =
                Cardinality(MessageBlocks(lintingText,
                                          Nth(FileHeaders(lintingText), k)))

\* C10: range fidelity.  The Finding produced for a problem entry that has
\* a well-formed location block has the four integers of that entry's own
\* location block as its range.
C10_RangeFidelity ==
    (Parsed /\ GrammarOK(lintingText))
    => \A k \in 1..Len(outputData) :
          LET blocks == MessageBlocks(lintingText,
                                      Nth(FileHeaders(lintingText), k))
          IN \A e \in 1..Len(outputData[k].problems) :
                e <= Cardinality(blocks)
                => \A l \in OwnLocations(lintingText, Nth(blocks, e)) :
                      outputData[k].problems[e].range = lintingText[l].r

\* The report grammar with the location block optional or garbled: every
\* problem entry is message, optional suggestion, optional (possibly
\* garbled) location, rule_id, rule_doc_uri.
LooseFollows(a, b) ==
    CASE a = "file"         -> b \in {"msg", "file", "end"}
      [] a = "msg"          -> b \in {"sugg", "loc", "badloc", "rule_id"}
      [] a = "sugg"         -> b \in {"loc", "badloc", "rule_id"}
      [] a = "loc"          -> b = "rule_id"
      [] a = "badloc"       -> b = "rule_id"
      [] a = "rule_id"      -> b = "rule_doc_uri"
      [] a = "rule_doc_uri" -> b \in {"msg", "file", "end"}
      [] OTHER              -> FALSE

LooseGrammarOK(text) ==
    /\ text # <<>>
    /\ text[1].k = "file"
    /\ \A i \in 1..Len(text) : LooseFollows(text[i].k, KindAt(text, i + 1))

\* C11: default-fill.  A problem entry whose location block is missing or
\* garbled yields a Finding with range {{0,0},{0,0}}, whatever the other
\* entries of the text carry.  Stated for texts with a single file section.
C11_DefaultFill ==
    (/\ Parsed
     /\ LooseGrammarOK(lintingText)
     /\ Cardinality(FileHeaders(lintingText)) = 1)
    => \A k \in 1..Len(outputData) :
          LET blocks == MessageBlocks(lintingText,
                                      Nth(FileHeaders(lintingText), k))
          IN \A e \in 1..Len(outputData[k].problems) :
                (e <= Cardinality(blocks)
                 /\ OwnLocations(lintingText, Nth(blocks, e)) = {})
                => outputData[k].problems[e].range = ZeroRange

\* The rule_id and rule_doc_uri lines of the problem entry that starts at m.
OwnTokens(text, m, kind) ==
    {i \in (m + 1)..(EntryEnd(text, m) - 1) : text[i].k = kind}

NoSuggestionLine(text) == \A i \in 1..Len(text) : text[i].k # "sugg"

\* C12: order preservation.  In every FileReport the i-th Finding carries
\* the message, rule_id and rule_doc_uri of the i-th problem block of that
\* file's section.  Stated for grammar-conforming texts without suggestion
\* lines.
C12_OrderPreservation ==
    (Parsed /\ GrammarOK(lintingText) /\ NoSuggestionLine(lintingText))
    => \A k \in 1..Len(outputData) :
          LET blocks == MessageBlocks(lintingText,
                                      Nth(FileHeaders(lintingText), k))
          IN /\ Len(outputData[k].problems) = Cardinality(blocks)
             /\ \A e \in 1..Len(outputData[k].problems) :
                   LET m == Nth(blocks, e)
                       p == outputData[k].problems[e]
                   IN /\ p.message = <<lintingText[m]>>
                      /\ \A i \in OwnTokens(lintingText, m, "rule_id") :
                            p.rule_id = lintingText[i].v
                      /\ \A i \in OwnTokens(lintingText, m, "rule_doc_uri") :
                            p.rule_doc_uri = lintingText[i].v

\* C13: one FileReport per file_path header, carrying the header's path;
\* a header followed by no problem entry yields an empty findings
\* sequence, wherever the header stands.
C13_EmptyFileReport ==
    (Parsed /\ GrammarOK(lintingText))
    => /\ Len(outputData) = Cardinality(FileHeaders(lintingText))
       /\ \A k \in 1..Len(outputData) :
             LET f == Nth(FileHeaders(lintingText), k)
             IN /\ outputData[k].file_path = lintingText[f].v
                /\ MessageBlocks(lintingText, f) = {}
                   => outputData[k].problems = <<>>

\* ---------------------------------- claims about the parser's loops
Returned == scan.pc = "returned"

\* What is left to scan: the text after fileRegex's cursor, and inside the
\* inner loop the text after problemRegex's cursor.
ScanMeasure ==
    LET n == Len(lintingText)
    IN CASE scan.pc = "file" ->
                1 + (n - scan.fileIndex) * (n + 2)
         [] scan.pc = "problem" ->
                2 + (n - scan.fileIndex) * (n + 2) + (n - scan.re.problem)
         [] OTHER -> 0

\* C14: parse is total.  For every input text the nested scanning loops
\* terminate (every step of either loop leaves strictly less to scan, and
\* a step is possible until the function has returned), and the call
\* returns a sequence of FileReports, one per file_path header.
C14_ParseTotal ==
    /\ [][ScanMeasure' < ScanMeasure]_vars
    /\ [](ScanMeasure \in Nat)
    /\ [](~Returned => ENABLED NextScan)
    /\ [](Returned => Len(outputData) = Cardinality(FileHeaders(lintingText)))
    /\ <>Returned

C14_Witness ==
    /\ Returned
    /\ \E i \in 1..Len(lintingText) :
          /\ lintingText[i].k = "msg"
          /\ \A j \in (i + 1)..Len(lintingText) : lintingText[j].k # "rule_id"
    /\ \E i \in 1..Len(lintingText) : lintingText[i].k = "file"

\* C15: determinism.  A call of the parser on the text (and with the
\* parser) of the first call returns what the first call returned,
\* whatever calls were made in between.
C15_Determinism ==
    (/\ Returned
     /\ scan.fn = scan.first.fn
     /\ lintingText = scan.first.text)
    => outputData = scan.first.result

C15_Witness ==
    /\ Returned
    /\ scan.calls = 3
    /\ scan.fn = scan.first.fn
    /\ lintingText = scan.first.text
    /\ Len(outputData) = 2
    /\ Len(outputData[2].problems) = 2

\* ------------------------------------ claims about the published records
PublishedRuns == {r \in RunIds : runs[r].publishes >= 1}

RuleMessage(problem) == <<problem.rule_id, " : ", problem.rule_doc_uri>>

\* C16: with related information supported, every published record has,
\* at the finding's own range, a related entry whose message is
\* `rule_id : rule_doc_uri`; and a finding for which no suggestion is
\* available (its suggestion request failed) has exactly that one entry.
C16_RelatedEntries ==
    hasDiagnosticRelatedInformationCapability
    => \A r \in PublishedRuns :
          \A i \in 1..Len(runs[r].diagnostics) :
             LET related == runs[r].diagnostics[i].relatedInformation
                 problem == runs[r].problems[i]
             IN /\ \E j \in 1..Len(related) :
                      /\ related[j].message = RuleMessage(problem)
                      /\ related[j].range = problem.range
                /\ (variant = "change" /\ runs[r].replies[i] = "Error")
                   => Len(related) = 1

\* C17: with related information unsupported, every published record has
\* no related list and carries the finding's message and range with
\* warning severity.
C17_NoRelatedInformation ==
    ~hasDiagnosticRelatedInformationCapability
    => /\ \A d \in Docs :
             \A i \in 1..Len(published[d].diagnostics) :
                /\ published[d].diagnostics[i].relatedInformation = <<>>
                /\ published[d].diagnostics[i].severity = "Warning"
       /\ \A r \in PublishedRuns :
             /\ Len(runs[r].diagnostics) = Len(runs[r].problems)
             /\ \A i \in 1..Len(runs[r].diagnostics) :
                   /\ runs[r].diagnostics[i].message = runs[r].problems[i].message
                   /\ runs[r].diagnostics[i].range = runs[r].problems[i].range
                   /\ runs[r].diagnostics[i].relatedInformation = <<>>

C17_Witness ==
    /\ ~hasDiagnosticRelatedInformationCapability
    /\ \E d \in Docs :
          /\ published[d].run # 0
          /\ Len(published[d].diagnostics) >= 1

\* C18: a failed suggestion request does not abort the pass.  A run that
\* has received a failure goes on with the next finding's request, or, if
\* that was the last finding, is done and has published one record for
\* every finding.
C18_FailureDoesNotAbort ==
    \A r \in RunIds :
        (\E i \in 1..Len(runs[r].replies) : runs[r].replies[i] = "Error")
        => \/ /\ runs[r].pc = "Enriching"
              /\ Len(runs[r].diagnostics) < Len(runs[r].problems)
              /\ runs[r].requests = Len(runs[r].diagnostics) + 1
           \/ /\ runs[r].pc = "Done"
              /\ runs[r].publishes = 1
              /\ Len(runs[r].diagnostics) = Len(runs[r].problems)
              /\ \A i \in 1..Len(runs[r].problems) :
                    runs[r].diagnostics[i].message = runs[r].problems[i].message

C18_Witness ==
    \E r \in RunIds :
        /\ runs[r].pc = "Done"
        /\ runs[r].replies = <<"Error", "fix">>
        /\ runs[r].publishes = 1
        /\ Len(published[runs[r].doc].diagnostics) = 2

\* C19: when the suggestion request of a finding fails, the published
\* record of that finding has no suggestion entry and no text derived
\* from the failure.
C19_FailedSuggestionOmitted ==
    variant = "change"
    => \A r \in PublishedRuns :
          \A i \in 1..Len(runs[r].replies) :
             runs[r].replies[i] = "Error"
             => \A j \in 1..Len(runs[r].diagnostics[i].relatedInformation) :
                   runs[r].diagnostics[i].relatedInformation[j].message
                        # <<"Error">>

\* ------------------------------------------ claims about the settings cache
\* The getDocumentSettings(key) calls since the key's last invalidation.
CallsSince(key) ==
    {i \in (invalidated[key].calls + 1)..Len(settingsCalls) :
        settingsCalls[i].resource = key}

\* The getConfiguration requests for key since its last invalidation.
RequestsSince(key) ==
    {i \in (invalidated[key].requests + 1)..Len(hostRequests) :
        hostRequests[i] = key}

\* C20: with per-document configuration supported, the getDocumentSettings
\* calls of a key since the key's last clear() / delete() have issued
\* exactly one host request together, they have all returned that
\* request's entry, and the cache holds it; a key with no call since then
\* has no request either.
C20_SettingsMemoized ==
    hasConfigurationCapability
    => \A key \in Docs :
          IF CallsSince(key) = {}
          THEN RequestsSince(key) = {}
          ELSE /\ Cardinality(RequestsSince(key)) = 1
               /\ key \in DOMAIN documentSettings
               /\ documentSettings[key] \in RequestsSince(key)
               /\ \A i \in CallsSince(key) :
                     settingsCalls[i].result = documentSettings[key]

C20_Witness ==
    /\ hasConfigurationCapability
    /\ \E key \in Docs :
          /\ Cardinality(CallsSince(key)) >= 2
          /\ invalidated[key].requests >= 1
          /\ hostRequests[1] = key

\* A step of onDidChangeConfiguration with per-document configuration
\* supported, seen from outside: the open documents stay, and runs start
\* or the keys' invalidation marks move.
ConfigurationChangeStep ==
    /\ hasConfigurationCapability
    /\ documents' = documents
    /\ (runs' # runs \/ invalidated' # invalidated)

\* A step in which getDocumentSettings has been called.
GetSettingsStep == Len(settingsCalls') = Len(settingsCalls) + 1

LastCall(calls) == calls[Len(calls)]

\* C21: a configuration-change event (per-document configuration
\* supported) leaves the settings cache empty and starts one validation
\* run for every open document; the first getDocumentSettings of a key
\* after it sends a new request to the host and returns that request's
\* entry, and no call returns an entry memoized before the event.
C21_ClearedAndRevalidated ==
    /\ [][/\ ConfigurationChangeStep
             => /\ documentSettings' = NoSettings
                /\ Len(runs') = Len(runs) + Cardinality(documents)
                /\ \A d \in documents :
                      \E r \in (Len(runs) + 1)..Len(runs') :
                          /\ runs'[r].doc = d
                          /\ runs'[r].pc = "Linting"
          /\ (hasConfigurationCapability /\ GetSettingsStep
                /\ CallsSince(LastCall(settingsCalls').resource) = {})
             => /\ hostRequests' =
                      Append(hostRequests, LastCall(settingsCalls').resource)
                /\ LastCall(settingsCalls').result = Len(hostRequests')
         ]_vars
    /\ [](hasConfigurationCapability
          => \A key \in Docs : \A i \in CallsSince(key) :
                settingsCalls[i].result > invalidated[key].requests)

\* Both documents were open at a configuration change (the only handler
\* that starts runs in the save variant), and a key cached before an
\* invalidation has been requested again after it.
C21_Witness ==
    /\ hasConfigurationCapability
    /\ variant = "save"
    /\ {runs[r].doc : r \in 1..Len(runs)} = Docs
    /\ Len(hostRequests) >= 2
    /\ \E key \in Docs :
          /\ hostRequests[1] = key
          /\ invalidated[key].requests >= 1
          /\ CallsSince(key) # {}
          /\ key \in DOMAIN documentSettings
          /\ documentSettings[key] > 1

\* A step of onDidClose for document d.
CloseStep(d) == d \in documents /\ documents' = documents \ {d}

\* C22: closing a document removes exactly its entry from the settings
\* cache: afterwards the cache has no entry for the closed key, and the
\* other keys have the entries they had.
C22_CloseRemovesOwnEntry ==
    [][\A d \in Docs :
          CloseStep(d)
          => /\ d \notin DOMAIN documentSettings'
             /\ DOMAIN documentSettings' = DOMAIN documentSettings \ {d}
             /\ \A k \in DOMAIN documentSettings' :
                   documentSettings'[k] = documentSettings[k]
      ]_vars

\* A closed document whose entry is gone while the entry of another key,
\* made before the close, is still there.
C22_Witness ==
    \E d \in Docs, k \in Docs :
        /\ d # k
        /\ d \notin documents
        /\ d \notin DOMAIN documentSettings
        /\ k \in DOMAIN documentSettings
        /\ documentSettings[k] <= invalidated[d].requests
        /\ \E i \in 1..invalidated[d].requests : hostRequests[i] = d

\* C23: with per-document configuration unsupported, getDocumentSettings
\* returns the current globalSettings for every key, adds no cache entry
\* and sends no request; a configuration change that carries no settings
\* of this server sets globalSettings to the default, max_problems 1000.
C23_GlobalFallback ==
    /\ [][~hasConfigurationCapability
          => /\ GetSettingsStep
                => /\ LastCall(settingsCalls').result = globalSettings
                   /\ documentSettings' = documentSettings
                   /\ hostRequests' = hostRequests
             /\ DidChangeConfiguration([present |-> FALSE, maxNumberOfProblems |-> 0])
                => /\ globalSettings' = defaultSettings
                   /\ globalSettings'.maxNumberOfProblems = 1000
         ]_vars
    /\ [](~hasConfigurationCapability
          => documentSettings = NoSettings /\ hostRequests = <<>>)

\* A call that returned changed settings, and a later call that returned
\* the default again.
C23_Witness ==
    /\ ~hasConfigurationCapability
    /\ documentSettings = NoSettings
    /\ \E i \in 1..Len(settingsCalls), j \in 1..Len(settingsCalls) :
          /\ i < j
          /\ settingsCalls[i].result.maxNumberOfProblems = 0
          /\ settingsCalls[j].result = defaultSettings

\* ------------------------------------------------- claims about ranges
\* start <= end in lexicographic (line, column) order; a range is
\* <<start line, start character, end line, end character>>.
StartNotAfterEnd(range) ==
    \/ range[1] < range[3]
    \/ (range[1] = range[3] /\ range[2] <= range[4])

\* C24: every Finding produced by the parser has a range whose start is
\* not after its end, for every linter output, one whose location block
\* lists its end before its start included.
C24_RangeOrdered ==
    Parsed
    => \A k \in 1..Len(outputData) :
          \A e \in 1..Len(outputData[k].problems) :
             StartNotAfterEnd(outputData[k].problems[e].range)

\* ------------------------------------- claims about runs of two documents
\* C25: a validation run of document d publishes to d's URI only.  A step
\* that changes the published set of a document is the publish of one run
\* of that document and changes no other document's set; every published
\* set is that of a run of its document, and every related-information
\* location in it has the document's URI.
C25_PublishesOwnUriOnly ==
    /\ [][\A d \in Docs :
             published'[d] # published[d]
             => /\ \E r \in 1..Len(runs) :
                      /\ runs[r].doc = d
                      /\ runs'[r].publishes = runs[r].publishes + 1
                      /\ published'[d].run = r
                /\ \A e \in Docs \ {d} : published'[e] = published[e]
         ]_vars
    /\ [](\A d \in Docs :
             /\ published[d].run # 0 => runs[published[d].run].doc = d
             /\ \A i \in 1..Len(published[d].diagnostics) :
                   LET related == published[d].diagnostics[i].relatedInformation
                   IN \A j \in 1..Len(related) : related[j].uri = d)

\* Runs of both documents have published findings with related
\* information.
C25_Witness ==
    \A d \in Docs :
        /\ published[d].run # 0
        /\ Len(published[d].diagnostics) >= 1
        /\ published[d].diagnostics[1].relatedInformation # <<>>

\* ------------------------------------ claims about suggestion requests
\* The suggestion requests of a run that have not been answered yet.
Outstanding(run) == run.requests - Len(run.replies)

\* C26: within one run the suggestion requests go out one at a time in
\* finding order: at most one is outstanding, request i + 1 is sent only
\* in the step in which the answer to request i arrives, there are never
\* more requests than findings, and with related-information display
\* unsupported there is none.
C26_OneRequestAtATime ==
    /\ [](\A r \in RunIds :
             /\ Outstanding(runs[r]) \in {0, 1}
             /\ runs[r].requests <= Len(runs[r].problems)
             /\ runs[r].requests > 0
                => Len(runs[r].diagnostics) = Len(runs[r].replies)
             /\ runs[r].pc = "Enriching" <=> Outstanding(runs[r]) = 1
             /\ ~hasDiagnosticRelatedInformationCapability
                => runs[r].requests = 0)
    /\ [][\A r \in 1..Len(runs) :
             runs'[r].requests # runs[r].requests
             => /\ runs'[r].requests = runs[r].requests + 1
                /\ Len(runs'[r].replies) = runs[r].requests
         ]_vars

\* A run that has sent its second request after the first was answered.
C26_Witness ==
    \E r \in RunIds :
        /\ runs[r].requests = 2
        /\ Len(runs[r].replies) = 1
        /\ runs[r].pc = "Enriching"

\* ------------------------------------------- claims about the round trip
SameFinding(a, b) ==
    /\ a.message = b.message
    /\ a.range = b.range
    /\ a.rule_id = b.rule_id
    /\ a.rule_doc_uri = b.rule_doc_uri

\* C27: for every LinterObject r that extractLintObjects returns,
\* extractLintObjects(r.toString()) returns exactly one LinterObject, with
\* r's file_path and r's problems: as many, in the same order, each with
\* the same message, range, rule_id and rule_doc_uri.
C27_RoundTrip ==
    (Parsed /\ parser = "extractLintObjects")
    => \A k \in 1..Len(outputData) :
          LET r == outputData[k]
              again == extractLintObjects(LinterObjectToString(r))
          IN /\ Len(again) = 1
             /\ again[1].file_path = r.file_path
             /\ Len(again[1].problems) = Len(r.problems)
             /\ \A e \in 1..Len(r.problems) :
                   SameFinding(again[1].problems[e], r.problems[e])

====
